---- MODULE Spec2Model ----
(***************************************************************************)
(* Run tracking of proctools (proctools/manager.py): the Job_Run table of  *)
(* the run-results store, Job.run_status, Batch.status, Pipeline.execute   *)
(* and Pipeline.init_logger; the constructors of Job and Batch,            *)
(* Batch.notification_addresses and Batch.send_notification, with          *)
(* communicate.extract_email_addresses and value.datetime_from_string;     *)
(* manager.run_as_main, value.min_value and max_value,                     *)
(* misc.merge_common_collections, the wait for the PDF of                  *)
(* media.convert_image_to_pdf and transfer.dropbox_upload_file.            *)
(* proctools/meta.py holds an earlier revision of the classes of           *)
(* manager.py; where the two differ the model follows manager.py.          *)
(***************************************************************************)
EXTENDS Integers, Sequences, FiniteSets, TLC

(***************************************************************************)
(* Bounds of the model.                                                     *)
(***************************************************************************)
\* Largest reading of the wall clock.
MaxClock == 1
\* Clock ticks per second: a reading has a fractional part unless it is a
\* multiple of this.
TicksPerSecond == 2
\* Longest Pipeline.members.
MaxMembers == 3
\* Number of times the caller calls Pipeline.execute on the same pipeline.
MaxExecutes == 2

(***************************************************************************)
(* The run-results store and the Job objects.                               *)
(***************************************************************************)
VARIABLES
    Job_Run,    \* the Job_Run table: row id = position (rows are never deleted)
    run_id,     \* Job.run_id of every Job object
    clock,      \* last reading of datetime.now()
    error,      \* what the last direct run_status write raised ("none" when nothing)
    members,    \* Pipeline.members
    pc,         \* position of Pipeline.execute
    mi,         \* index of the member being executed
    pi,         \* number of procedures of the member that have returned
    raised,     \* exception that left execute ("none" when none)
    thrown,     \* exception the last failing procedure raised
    invoked,    \* procedures invoked by the current execute: <<member, procedure>>
    handlers,   \* logging.getLogger().handlers
    inits,      \* number of init_logger calls so far
    executes,   \* number of execute() calls so far
    jobStarts,  \* number of times execute has started to run a Job member
    atCall,     \* the store and the handlers when execute was last called
    source,     \* the argument of extract_email_addresses
    epc,        \* "call" before extract_email_addresses has run, "done" after
    yielded,    \* what extract_email_addresses yielded
    Batch,      \* the Batch table: the set of its rows
    batch,      \* the Batch object of the process: <<name, batch_id>>, <<>> if none
    made,       \* what the last constructor call made: <<class, name, id>>
    nerror,     \* what the last Batch or Job call raised ("none" when nothing)
    addresses,  \* what notification_addresses last returned
    npc,        \* position of Batch.send_notification
    records,    \* the sorted job_last_run_records send_notification holds
    subject,    \* the status description send_notification put in the subject
    sends,      \* the send_email_smtp calls of the last send_notification
    minmax,     \* the arguments of min_value / max_value and what they gave
    merge,      \* the arguments of merge_common_collections and what it yielded
    main,       \* the command line of run_as_main and what it logged
    poll,       \* the wait loop of convert_image_to_pdf(_cmd)
    upload      \* dropbox_upload_file: the stream, the cursor and the requests

jobVars == <<Job_Run, run_id, clock, error>>
pipeVars == <<members, pc, mi, pi, raised, thrown, invoked, handlers, inits,
              executes, jobStarts, atCall>>
extractVars == <<source, epc, yielded>>
batchVars == <<Batch, batch, made, nerror, addresses>>
notifyVars == <<npc, records, subject, sends>>
utilVars == <<minmax, merge, main, poll, upload>>
noteVars == <<extractVars, batchVars, notifyVars, utilVars>>
vars == <<Job_Run, run_id, clock, error, members, pc, mi, pi, raised, thrown,
          invoked, handlers, inits, executes, jobStarts, atCall, source, epc,
          yielded, Batch, batch, made, nerror, addresses, npc, records, subject,
          sends, minmax, merge, main, poll, upload>>

\* Job.run_id before the first status write.
None == 0

\* A NULL column / a None timestamp.
Null == <<>>

RUN_STATUS_DESCRIPTION ==
    (1 :> "complete") @@ (0 :> "failed") @@ (-1 :> "incomplete")

\* Ids of the Job table.
JobIds == {1, 2, 3}

\* The Job objects the process has constructed.
Insts == {1, 2, 3}

\* Job.job_id of object i: objects 1 and 2 are both Job("a"), object 3 is
\* Job("b"); job 3 has no object in this process.
JobOf(i) == IF i = 3 THEN 2 ELSE 1

\* Job.batch_id in the Job table: jobs 1 and 2 are in batch 1, job 3 in batch 2.
BatchOf(j) == IF j = 3 THEN 2 ELSE 1

BatchIds == {BatchOf(j) : j \in JobIds}

\* datetime.isoformat(" "): the text has a fractional part only when the
\* microsecond field is not zero.  A text is the sequence of its fields.
IsoFormat(t) ==
    IF t % TicksPerSecond = 0
        THEN <<t \div TicksPerSecond>>
        ELSE <<t \div TicksPerSecond, t % TicksPerSecond>>

\* A reader that takes only texts with a fractional part.
datetime_from_string_strict(value) ==
    IF Len(value) = 2 THEN <<value[1] * TicksPerSecond + value[2]>> ELSE <<>>

\* value.datetime_from_string: None (the empty sequence) for None or "", else
\* the date-time dateutil's parse reads from the fields of the text, a missing
\* fractional part being zero; the result is a sequence of at most one reading.
datetime_from_string(value) ==
    IF value = Null THEN <<>>
    ELSE IF Len(value) = 1 THEN <<value[1] * TicksPerSecond>>
    ELSE <<value[1] * TicksPerSecond + value[2]>>

\* Readings datetime.now() can return after the reading `c`.
Now(c) == {t \in {c, c + 1} : t <= MaxClock}

\* A range check that lets 2 through.
ValidStatusWide(value) == value \in -1..2

\* `value not in RUN_STATUS_DESCRIPTION` is false.
ValidStatus(value) == value \in DOMAIN RUN_STATUS_DESCRIPTION

\* Row inserted by the first status write.
NewRow(i, value, t) ==
    [job_id |-> JobOf(i), status |-> value, start_time |-> IsoFormat(t),
     end_time |-> Null]

\* Ids the SELECT after the INSERT can return first: the rows with the job's id
\* and the start time just written (no ORDER BY).
SelectRunIds(rows, i, t) ==
    {r \in 1..Len(rows) :
        rows[r].job_id = JobOf(i) /\ rows[r].start_time = IsoFormat(t)}

\* An end_time that is never set.
EndTimeNever(value, t) == Null

\* end_time written by a status write on an existing run.
EndTime(value, t) == IF value = -1 THEN Null ELSE IsoFormat(t)

\* An UPDATE that also restarts the run.
UpdatedRowRestart(row, value, t) ==
    [row EXCEPT !.status = value, !.end_time = IF value = -1 THEN Null ELSE IsoFormat(t),
                !.start_time = IsoFormat(t)]

\* The row after UPDATE Job_Run SET status = ?, end_time = ? WHERE id = ?.
UpdatedRow(row, value, t) ==
    [row EXCEPT !.status = value, !.end_time = EndTime(value, t)]

\* Job.run_status = value on object i, with a valid value: the effect on the
\* store, the Job object and the clock.
WriteStatus(i, value) ==
    \E t \in Now(clock) :
        /\ clock' = t
        /\ IF run_id[i] = None
              THEN /\ Job_Run' = Append(Job_Run, NewRow(i, value, t))
                   /\ \E r \in SelectRunIds(Job_Run', i, t) :
                          run_id' = [run_id EXCEPT ![i] = r]
              ELSE /\ Job_Run' =
                          [Job_Run EXCEPT
                              ![run_id[i]] = UpdatedRow(Job_Run[run_id[i]], value, t)]
                   /\ run_id' = run_id

\* The getter Job.run_status: nothing before the first write, else the status
\* of the row run_id names (as a sequence of at most one element).
RunStatus(i) ==
    IF run_id[i] = None THEN <<>> ELSE <<Job_Run[run_id[i]].status>>

\* Values a caller may try to write.
StatusValues == -2..2

\* A setter that validates the value only after it has written it.
SetRunStatusLate(i, value) ==
    /\ WriteStatus(i, value)
    /\ error' = IF ValidStatus(value) THEN "none" ELSE "ValueError"
    /\ UNCHANGED pipeVars
    /\ UNCHANGED noteVars

\* Job.run_status = value, called directly on a Job object.
SetRunStatus(i, value) ==
    /\ IF ValidStatus(value)
          THEN /\ WriteStatus(i, value)
               /\ error' = "none"
          ELSE /\ error' = "ValueError"
               /\ UNCHANGED <<Job_Run, run_id, clock>>
    /\ UNCHANGED pipeVars
    /\ UNCHANGED noteVars

(***************************************************************************)
(* Batch.status over the Last_Job_Run view.                                 *)
(***************************************************************************)
\* Text comparison a < b of the store (TEXT columns compare field by field, a
\* proper prefix first).
RECURSIVE TextLess(_, _)
TextLess(a, b) ==
    IF b = <<>> THEN FALSE
    ELSE IF a = <<>> THEN TRUE
    ELSE IF Head(a) # Head(b) THEN Head(a) < Head(b)
    ELSE TextLess(Tail(a), Tail(b))

\* The view Last_Job_Run restricted to a batch, as row ids in id order: per
\* job, the Job_Run rows with the maximum start_time, joined with the job's
\* batch_id.
Last_Job_Run(rows, batch_id) ==
    LET latest == {r \in 1..Len(rows) :
                      /\ BatchOf(rows[r].job_id) = batch_id
                      /\ \A q \in 1..Len(rows) :
                             rows[q].job_id = rows[r].job_id
                                 => ~TextLess(rows[r].start_time, rows[q].start_time)}
        RECURSIVE Ordered(_, _)
        Ordered(r, acc) ==
            IF r > Len(rows) THEN acc
            ELSE Ordered(r + 1, IF r \in latest THEN Append(acc, r) ELSE acc)
    IN  Ordered(1, <<>>)

\* all(status == 1 for status, in cursor): stops at the first other status.
RECURSIVE AllComplete(_, _)
AllComplete(rows, cursor) ==
    IF cursor = <<>> THEN TRUE
    ELSE IF rows[Head(cursor)].status # 1 THEN FALSE
    ELSE AllComplete(rows, Tail(cursor))

\* any() in place of all().
BatchStatusAny(rows, batch_id) ==
    IF \E k \in 1..Len(Last_Job_Run(rows, batch_id)) :
           rows[Last_Job_Run(rows, batch_id)[k]].status = 1
        THEN 1 ELSE -1

\* A status that is complete only when there is a last run to be complete.
BatchStatusNonEmpty(rows, batch_id) ==
    IF /\ Last_Job_Run(rows, batch_id) # <<>>
       /\ AllComplete(rows, Last_Job_Run(rows, batch_id))
        THEN 1 ELSE -1

\* Batch.status of the batch with id batch_id.
BatchStatus(rows, batch_id) ==
    IF AllComplete(rows, Last_Job_Run(rows, batch_id)) THEN 1 ELSE -1

(***************************************************************************)
(* The Job and Batch tables.                                                *)
(***************************************************************************)
\* Job.name of the rows of the Job table.
JobName(j) == IF j = 1 THEN "a" ELSE IF j = 2 THEN "b" ELSE "c"

\* Batch.name of the rows of the Batch table.
BatchName(b) == IF b = 1 THEN "nightly" ELSE "weekly"

\* Python's None as a value that may be scanned for addresses (a NULL column).
NoneValue == <<"None", <<>>>>

\* A row of the Batch table; cols are the four notification address columns.
BatchRow(b, cols) ==
    [id |-> b, name |-> BatchName(b),
     notification_to_addresses |-> cols[1],
     notification_copy_addresses |-> cols[2],
     notification_blind_copy_addresses |-> cols[3],
     notification_reply_to_addresses |-> cols[4]]

\* No extraction under way.
InitIdleExtract ==
    /\ source = NoneValue
    /\ epc = "done"
    /\ yielded = <<>>

\* Every batch without notification addresses; no Batch object constructed.
InitIdleBatch ==
    /\ Batch = {BatchRow(b, <<NoneValue, NoneValue, NoneValue, NoneValue>>) :
                    b \in BatchIds}
    /\ batch = <<>>
    /\ made = <<>>
    /\ nerror = "none"
    /\ addresses = <<>>

\* No notification under way.
InitIdleNotify ==
    /\ npc = "idle"
    /\ records = <<>>
    /\ subject = ""
    /\ sends = <<>>

\* No call of min_value or max_value made.
InitIdleMinMax == minmax = [values |-> <<>>, called |-> "none", raises |-> "none",
                            result |-> <<>>]

\* No call of merge_common_collections made.
InitIdleMerge ==
    merge = [input |-> <<>>, collections |-> <<>>, done |-> TRUE, yielded |-> <<>>]

\* run_as_main not called.
InitIdleMain ==
    main = [argv |-> <<>>, called |-> FALSE, errors |-> <<>>, handlers |-> <<>>]

\* No conversion under way.
InitIdlePoll ==
    poll = [function |-> "", pc |-> "idle", wait_time |-> 0, is_file |-> FALSE,
            error_on_failure |-> FALSE, result |-> ""]

\* No upload under way.
InitIdleUpload ==
    upload = [pc |-> "idle", file_size |-> 0, chunk_size |-> 1, tell |-> 0,
              offset |-> 0, requests |-> <<>>]

InitIdleUtil ==
    InitIdleMinMax /\ InitIdleMerge /\ InitIdleMain /\ InitIdlePoll /\ InitIdleUpload

InitIdleNote == InitIdleExtract /\ InitIdleBatch /\ InitIdleNotify /\ InitIdleUtil

\* A run left in the store by an earlier process: job 3 failed at reading 0.
EarlierRuns ==
    <<[job_id |-> 3, status |-> 0, start_time |-> IsoFormat(0),
       end_time |-> IsoFormat(0)]>>

InitJob ==
    /\ Job_Run = EarlierRuns
    /\ run_id = [i \in Insts |-> None]
    /\ clock = 0
    /\ error = "none"

InitIdlePipeline ==
    /\ members = <<>>
    /\ pc = "idle"
    /\ mi = 0
    /\ pi = 0
    /\ raised = "none"
    /\ thrown = "none"
    /\ invoked = <<>>
    /\ handlers = <<>>
    /\ inits = 0
    /\ executes = 0
    /\ jobStarts = 0
    /\ atCall = [Job_Run |-> EarlierRuns, handlers |-> <<>>]

\* Status writes by callers on any Job objects, in any order.
JobInit == InitJob /\ InitIdlePipeline /\ InitIdleNote

JobNext == \E i \in Insts, value \in StatusValues : SetRunStatus(i, value)

JobSpec == JobInit /\ [][JobNext]_vars

(***************************************************************************)
(* Pipeline.init_logger and Pipeline.execute.                               *)
(***************************************************************************)
\* What a pipeline can hold: a Job object, a plain function or lambda (a
\* FunctionType), a functools.partial (callable, no FunctionType), anything
\* else (not callable).
MemberSet ==
    {<<"job", i>> : i \in Insts}
        \cup {<<"function", 0>>, <<"partial", 0>>, <<"other", 0>>}

RECURSIVE SeqsUpTo(_, _)
SeqsUpTo(S, n) ==
    IF n = 0 THEN {<<>>}
    ELSE LET shorter == SeqsUpTo(S, n - 1)
         IN  shorter \cup {Append(q, x) : q \in {r \in shorter : Len(r) = n - 1}, x \in S}

\* Pipeline(*members).
Pipelines == SeqsUpTo(MemberSet, MaxMembers)

IsJob(member) == member[1] = "job"

\* isinstance(member, FunctionType).
IsFunction(member) == member[1] = "function"

\* len(Job.procedures) of Job object i: one, two and no procedure.
NumProcedures(i) == i % 3

\* len(procedures) of a member execute has accepted.
ProcedureCount(member) == IF IsJob(member) THEN NumProcedures(member[2]) ELSE 1

\* Exceptions a procedure may raise.
Exceptions == {"IOError", "KeyError"}

\* The list after `for handler in logger.handlers: logger.removeHandler(handler)`:
\* the loop walks the list by position while removeHandler deletes from it.
RECURSIVE RemoveHandlers(_, _)
RemoveHandlers(hs, pos) ==
    IF pos > Len(hs) THEN hs
    ELSE RemoveHandlers(SubSeq(hs, 1, pos - 1) \o SubSeq(hs, pos + 1, Len(hs)), pos + 1)

\* logger.handlers after init_logger: old handlers removed, then the console
\* handler and the file handler of call number n added.
InitLoggerHandlers(hs, n) ==
    RemoveHandlers(hs, 1)
        \o <<[kind |-> "console", call |-> n], [kind |-> "file", call |-> n]>>

\* pipeline.execute() is called.
Execute ==
    /\ pc \in {"idle", "returned", "raised"}
    /\ executes < MaxExecutes
    /\ executes' = executes + 1
    /\ pc' = "member"
    /\ mi' = 1
    /\ pi' = 0
    /\ raised' = "none"
    /\ thrown' = "none"
    /\ invoked' = <<>>
    /\ atCall' = [Job_Run |-> Job_Run, handlers |-> handlers]
    /\ UNCHANGED <<Job_Run, run_id, clock, error, members, handlers, inits, jobStarts>>
    /\ UNCHANGED noteVars

\* A Job member that is started without the status write.
StartJobWithoutWrite ==
    /\ pc = "member"
    /\ mi <= Len(members)
    /\ IsJob(members[mi])
    /\ jobStarts' = jobStarts + 1
    /\ pc' = "init_logger"
    /\ UNCHANGED <<jobVars, members, mi, pi, raised, thrown, invoked, handlers, inits,
                   executes, atCall>>
    /\ UNCHANGED noteVars

\* The member is a Job: member.run_status = -1.
StartJob ==
    /\ pc = "member"
    /\ mi <= Len(members)
    /\ IsJob(members[mi])
    /\ WriteStatus(members[mi][2], -1)
    /\ jobStarts' = jobStarts + 1
    /\ pc' = "init_logger"
    /\ UNCHANGED <<error, members, mi, pi, raised, thrown, invoked, handlers, inits,
                   executes, atCall>>
    /\ UNCHANGED noteVars

\* The member is a function: it is its own single procedure.
StartFunction ==
    /\ pc = "member"
    /\ mi <= Len(members)
    /\ ~IsJob(members[mi])
    /\ IsFunction(members[mi])
    /\ pc' = "init_logger"
    /\ UNCHANGED <<jobVars, members, mi, pi, raised, thrown, invoked, handlers, inits,
                   executes, jobStarts, atCall>>
    /\ UNCHANGED noteVars

\* The member is neither: raise TypeError("Invalid pipeline member type").
RejectMember ==
    /\ pc = "member"
    /\ mi <= Len(members)
    /\ ~IsJob(members[mi])
    /\ ~IsFunction(members[mi])
    /\ raised' = "TypeError"
    /\ pc' = "raised"
    /\ UNCHANGED <<jobVars, members, mi, pi, thrown, invoked, handlers, inits,
                   executes, jobStarts, atCall>>
    /\ UNCHANGED noteVars

\* log = self.init_logger(member_name, file_mode="w", file_level=DEBUG).
InitLogger ==
    /\ pc = "init_logger"
    /\ inits' = inits + 1
    /\ handlers' = InitLoggerHandlers(handlers, inits')
    /\ pi' = 0
    /\ pc' = "procedures"
    /\ UNCHANGED <<jobVars, members, mi, raised, thrown, invoked, executes, jobStarts,
                   atCall>>
    /\ UNCHANGED noteVars

\* A loop that walks the procedures from the last to the first.
ProcedureReturnsReversed ==
    /\ pc = "procedures"
    /\ pi < ProcedureCount(members[mi])
    /\ invoked' = Append(invoked, <<mi, ProcedureCount(members[mi]) - pi>>)
    /\ pi' = pi + 1
    /\ UNCHANGED <<jobVars, members, pc, mi, raised, thrown, handlers, inits,
                   executes, jobStarts, atCall>>
    /\ UNCHANGED noteVars

\* The next procedure of the member is called and returns.
ProcedureReturns ==
    /\ pc = "procedures"
    /\ pi < ProcedureCount(members[mi])
    /\ invoked' = Append(invoked, <<mi, pi + 1>>)
    /\ pi' = pi + 1
    /\ UNCHANGED <<jobVars, members, pc, mi, raised, thrown, handlers, inits,
                   executes, jobStarts, atCall>>
    /\ UNCHANGED noteVars

\* The next procedure of the member is called and raises: the exception is
\* logged and raised again.
ProcedureRaises(e) ==
    /\ pc = "procedures"
    /\ pi < ProcedureCount(members[mi])
    /\ invoked' = Append(invoked, <<mi, pi + 1>>)
    /\ thrown' = e
    /\ raised' = e
    /\ pc' = "raised"
    /\ UNCHANGED <<jobVars, members, mi, pi, handlers, inits, executes, jobStarts,
                   atCall>>
    /\ UNCHANGED noteVars

\* An execute that goes on to the next member without the status write.
FinishJobWithoutWrite ==
    /\ pc = "procedures"
    /\ pi = ProcedureCount(members[mi])
    /\ IsJob(members[mi])
    /\ mi' = mi + 1
    /\ pc' = "member"
    /\ UNCHANGED <<jobVars, members, pi, raised, thrown, invoked, handlers, inits,
                   executes, jobStarts, atCall>>
    /\ UNCHANGED noteVars

\* All procedures of a Job have returned: member.run_status = 1.
FinishJob ==
    /\ pc = "procedures"
    /\ pi = ProcedureCount(members[mi])
    /\ IsJob(members[mi])
    /\ WriteStatus(members[mi][2], 1)
    /\ mi' = mi + 1
    /\ pc' = "member"
    /\ UNCHANGED <<error, members, pi, raised, thrown, invoked, handlers, inits,
                   executes, jobStarts, atCall>>
    /\ UNCHANGED noteVars

\* The function has returned.
FinishFunction ==
    /\ pc = "procedures"
    /\ pi = ProcedureCount(members[mi])
    /\ ~IsJob(members[mi])
    /\ mi' = mi + 1
    /\ pc' = "member"
    /\ UNCHANGED <<jobVars, members, pi, raised, thrown, invoked, handlers, inits,
                   executes, jobStarts, atCall>>
    /\ UNCHANGED noteVars

\* The loop over the members is over: execute returns.
Return ==
    /\ pc = "member"
    /\ mi > Len(members)
    /\ pc' = "returned"
    /\ UNCHANGED <<jobVars, members, mi, pi, raised, thrown, invoked, handlers, inits,
                   executes, jobStarts, atCall>>
    /\ UNCHANGED noteVars

Init ==
    /\ InitJob
    /\ members \in Pipelines
    /\ pc = "idle"
    /\ mi = 0
    /\ pi = 0
    /\ raised = "none"
    /\ thrown = "none"
    /\ invoked = <<>>
    /\ handlers = <<>>
    /\ inits = 0
    /\ executes = 0
    /\ jobStarts = 0
    /\ atCall = [Job_Run |-> EarlierRuns, handlers |-> <<>>]
    /\ InitIdleNote

Next ==
    \/ Execute
    \/ StartJob
    \/ StartFunction
    \/ RejectMember
    \/ InitLogger
    \/ ProcedureReturns
    \/ \E e \in Exceptions : ProcedureRaises(e)
    \/ FinishJob
    \/ FinishFunction
    \/ Return

Spec == Init /\ [][Next]_vars

(***************************************************************************)
(* communicate.extract_email_addresses.                                     *)
(***************************************************************************)
\* Longest text drawn for a source.
MaxText == 3
\* Longest list drawn for a source.
MaxItems == 2

\* A text is the sequence of its characters: "c" stands for the characters
\* of the class [\w\.-], "@" for itself, " " for every other character.
Chars == {"c", "@"}

IsWord(ch) == ch = "c"

\* A text with two addresses in it.
TwoAddresses == <<"c", "@", "c", " ", "c", "c", "@", "c">>

Texts == SeqsUpTo(Chars, MaxText) \cup {TwoAddresses}

\* First position from i on that holds no word character.
RECURSIVE RunEnd(_, _)
RunEnd(s, i) ==
    IF i > Len(s) \/ ~IsWord(s[i]) THEN i ELSE RunEnd(s, i + 1)

\* findall(r"[\w\.-]+@[\w\.-]+", s) from position i on: leftmost matches,
\* each as long as it can be, none overlapping.
RECURSIVE FindAllFrom(_, _)
FindAllFrom(s, i) ==
    IF i > Len(s) THEN <<>>
    ELSE IF ~IsWord(s[i]) THEN FindAllFrom(s, i + 1)
    ELSE LET j == RunEnd(s, i)
         IN  IF j + 1 <= Len(s) /\ s[j] = "@" /\ IsWord(s[j + 1])
                 THEN <<SubSeq(s, i, RunEnd(s, j + 1) - 1)>>
                          \o FindAllFrom(s, RunEnd(s, j + 1))
                 ELSE FindAllFrom(s, j)

findall(s) == FindAllFrom(s, 1)

\* A source is <<type, content>>: "str" and "bytes" hold a text, "list" a
\* sequence of sources, "dict" a sequence of <<key, value>> items in insertion
\* order, "None" and "int" nothing.
Str(s) == <<"str", s>>

Address == <<"c", "@", "c">>

\* isinstance(source, Iterable) for the sources that are no str or bytes.
IsIterable(src) == src[1] \in {"list", "dict"}

\* What iterating over the source gives: the items of a list, the keys of a
\* dict.
Iterate(src) ==
    IF src[1] = "dict" THEN [k \in 1..Len(src[2]) |-> src[2][k][1]] ELSE src[2]

\* An extraction that returns at the first source of an unsupported type.
RECURSIVE extract_email_addresses_return(_)
extract_email_addresses_return(sources) ==
    IF sources = <<>> THEN <<>>
    ELSE LET src == Head(sources)
         IN  IF src[1] \in {"str", "bytes"}
                 THEN findall(src[2]) \o extract_email_addresses_return(Tail(sources))
             ELSE IF IsIterable(src)
                 THEN extract_email_addresses_return(Iterate(src))
                          \o extract_email_addresses_return(Tail(sources))
             ELSE <<>>

\* extract_email_addresses(*sources), as the list of what it yields: bytes
\* are decoded, a str is searched, an Iterable is passed on item by item (a
\* dict is Iterable, so the dict branch after it is never taken), anything else
\* yields nothing.
RECURSIVE extract_email_addresses(_)
extract_email_addresses(sources) ==
    IF sources = <<>> THEN <<>>
    ELSE LET src == Head(sources)
             first ==
                 IF src[1] \in {"str", "bytes"} THEN findall(src[2])
                 ELSE IF IsIterable(src) THEN extract_email_addresses(Iterate(src))
                 ELSE <<>>
         IN  first \o extract_email_addresses(Tail(sources))

\* Sources drawn for the call: texts as str and as bytes, None, a number,
\* lists, dicts, dicts in lists and in dicts.
Atoms ==
    {<<"str", s>> : s \in Texts} \cup {<<"bytes", s>> : s \in Texts}
        \cup {NoneValue, <<"int", <<>>>>}

Words == {Str(Address), Str(<<"c">>), <<"int", <<>>>>}

Lists == {<<"list", q>> : q \in SeqsUpTo(Words, MaxItems)}

Keys == {Str(<<"c">>), Str(Address)}

Dicts ==
    {<<"dict", <<>>>>}
        \cup {<<"dict", <<<<k, v>>>>>> : k \in Keys, v \in Words \cup Lists}
        \cup {<<"dict", <<<<Str(<<"c">>), v>>, <<Str(Address), w>>>>>> :
                  v \in Words, w \in Words}

Nested ==
    {<<"list", <<d>>>> : d \in Dicts}
        \cup {<<"dict", <<<<Str(<<"c">>), d>>>>>> : d \in Dicts}

\* Lists of two lists.
ListsOfLists == {<<"list", <<a, b>>>> : a \in Lists, b \in Lists}

Sources == Atoms \cup Lists \cup Dicts \cup Nested \cup ListsOfLists

InitExtract ==
    /\ source \in Sources
    /\ epc = "call"
    /\ yielded = <<>>

\* list(extract_email_addresses(source)).
Extract ==
    /\ epc = "call"
    /\ yielded' = extract_email_addresses(<<source>>)
    /\ epc' = "done"
    /\ UNCHANGED <<source, batchVars, notifyVars, jobVars, pipeVars>>
    /\ UNCHANGED utilVars

ExtractInit ==
    /\ InitJob
    /\ InitIdlePipeline
    /\ InitExtract
    /\ InitIdleBatch
    /\ InitIdleNotify
    /\ InitIdleUtil

ExtractNext == Extract

ExtractSpec == ExtractInit /\ [][ExtractNext]_vars

(***************************************************************************)
(* Job.__init__, Batch.__init__ and Batch.notification_addresses.           *)
(***************************************************************************)
\* Names a caller may construct a Job or a Batch with; no table has "zz".
JobNames == {JobName(j) : j \in JobIds} \cup {"zz"}

BatchNames == {BatchName(b) : b \in BatchIds} \cup {"zz"}

\* What a notification address column may hold: NULL, the empty text, a text
\* without an address, one address, two addresses.
ColumnValues == {NoneValue, Str(<<>>), Str(<<"c">>), Str(Address), Str(TwoAddresses)}

\* Batch tables drawn for the store: the columns of batch 1 vary.
BatchTables ==
    {{BatchRow(1, <<to, copy, blind, reply>>),
      BatchRow(2, <<NoneValue, NoneValue, NoneValue, NoneValue>>)} :
         to \in ColumnValues, copy \in {NoneValue, Str(Address)},
         blind \in {NoneValue, Str(Address)}, reply \in {NoneValue, Str(Address)}}

\* Job(name): SELECT id FROM Job WHERE name = ?, then fetchone()[0], which is
\* None[0] when no row has the name.
NewJob(name) ==
    /\ npc = "idle"
    /\ LET ids == {j \in JobIds : JobName(j) = name}
       IN  IF ids = {}
               THEN /\ nerror' = "TypeError"
                    /\ made' = <<"Job", name, None>>
               ELSE /\ nerror' = "none"
                    /\ made' = <<"Job", name, CHOOSE j \in ids : TRUE>>
    /\ UNCHANGED <<Batch, batch, addresses, extractVars, notifyVars, jobVars, pipeVars>>
    /\ UNCHANGED utilVars

\* Batch(name): SELECT id FROM Batch WHERE name = ?, then fetchone()[0].
NewBatch(name) ==
    /\ npc = "idle"
    /\ LET rows == {row \in Batch : row.name = name}
       IN  IF rows = {}
               THEN /\ nerror' = "TypeError"
                    /\ made' = <<"Batch", name, None>>
                    /\ batch' = batch
               ELSE /\ nerror' = "none"
                    /\ made' = <<"Batch", name, (CHOOSE row \in rows : TRUE).id>>
                    /\ batch' = <<name, (CHOOSE row \in rows : TRUE).id>>
    /\ UNCHANGED <<Batch, addresses, extractVars, notifyVars, jobVars, pipeVars>>
    /\ UNCHANGED utilVars

\* The dictionary notification_addresses builds from a row.
AddressesOf(row) ==
    [to_addresses |-> extract_email_addresses(<<row.notification_to_addresses>>),
     copy_addresses |-> extract_email_addresses(<<row.notification_copy_addresses>>),
     blind_copy_addresses |->
         extract_email_addresses(<<row.notification_blind_copy_addresses>>),
     reply_to_addresses |->
         extract_email_addresses(<<row.notification_reply_to_addresses>>)]

\* Rows the SELECT ... WHERE name = ? LIMIT 1 of notification_addresses finds.
RowsNamed(name) == {row \in Batch : row.name = name}

\* A read that takes a missing row for a batch without addresses.
ReadAddressesLenient(name) ==
    IF RowsNamed(name) = {}
        THEN [raises |-> "none",
              value |-> <<[to_addresses |-> <<>>, copy_addresses |-> <<>>,
                           blind_copy_addresses |-> <<>>, reply_to_addresses |-> <<>>]>>]
        ELSE [raises |-> "none",
              value |-> <<AddressesOf(CHOOSE row \in RowsNamed(name) : TRUE)>>]

\* Batch.notification_addresses of the batch named name: what it raises
\* and what it returns.
ReadAddresses(name) ==
    IF RowsNamed(name) = {}
        THEN [raises |-> "ValueError", value |-> <<>>]
        ELSE [raises |-> "none",
              value |-> <<AddressesOf(CHOOSE row \in RowsNamed(name) : TRUE)>>]

\* The caller reads batch.notification_addresses.
NotificationAddresses ==
    /\ npc = "idle"
    /\ batch # <<>>
    /\ nerror' = ReadAddresses(batch[1]).raises
    /\ addresses' = IF ReadAddresses(batch[1]).raises = "none"
                        THEN ReadAddresses(batch[1]).value
                        ELSE addresses
    /\ made' = <<"notification_addresses", batch[1], batch[2]>>
    /\ UNCHANGED <<Batch, batch, extractVars, notifyVars, jobVars, pipeVars>>
    /\ UNCHANGED utilVars

\* Someone with access to the store deletes the row of batch b.
DeleteBatch(b) ==
    /\ npc = "idle"
    /\ \E row \in Batch : row.id = b
    /\ Batch' = {row \in Batch : row.id # b}
    /\ UNCHANGED <<batch, made, nerror, addresses, extractVars, notifyVars, jobVars,
                   pipeVars>>
    /\ UNCHANGED utilVars

BatchInit ==
    /\ InitJob
    /\ InitIdlePipeline
    /\ InitIdleExtract
    /\ InitIdleNotify
    /\ Batch \in BatchTables
    /\ batch = <<>>
    /\ made = <<>>
    /\ nerror = "none"
    /\ addresses = <<>>
    /\ InitIdleUtil

BatchNext ==
    \/ \E name \in JobNames : NewJob(name)
    \/ \E name \in BatchNames : NewBatch(name)
    \/ NotificationAddresses
    \/ \E b \in BatchIds : DeleteBatch(b)

BatchSpec == BatchInit /\ [][BatchNext]_vars

(***************************************************************************)
(* Batch.send_notification.                                                 *)
(***************************************************************************)
\* Batch.job_last_run_records: the rows of Last_Job_Run of the batch, in the
\* order of the view, with the timestamps turned into date-times.
job_last_run_records(rows, batch_id) ==
    [k \in 1..Len(Last_Job_Run(rows, batch_id)) |->
        LET row == rows[Last_Job_Run(rows, batch_id)[k]]
        IN  [job_id |-> row.job_id, status |-> row.status,
             start_time |-> datetime_from_string(row.start_time),
             end_time |-> datetime_from_string(row.end_time)]]

\* a < b for the keys itemgetter("start_time", "end_time") of two records
\* whose comparison does not raise.
KeyLess(a, b) ==
    IF a.start_time # b.start_time THEN a.start_time[1] < b.start_time[1]
    ELSE IF a.end_time = b.end_time THEN FALSE
    ELSE a.end_time[1] < b.end_time[1]

\* Comparing the keys of a and b raises TypeError: the first fields are
\* equal and the second fields are None and a date-time.
KeyCompareRaises(a, b) ==
    /\ a.start_time = b.start_time
    /\ a.end_time # b.end_time
    /\ (a.end_time = <<>> \/ b.end_time = <<>>)

\* sorted(records, key=..., reverse=True) raises: two records that have to
\* be ordered by their second field cannot be compared.
SortRaises(recs) ==
    \E m, n \in 1..Len(recs) : KeyCompareRaises(recs[m], recs[n])

\* Place of x in a descending list: after everything that is not less.
RECURSIVE InsertDescending(_, _)
InsertDescending(sorted, x) ==
    IF sorted = <<>> THEN <<x>>
    ELSE IF KeyLess(Head(sorted), x) THEN <<x>> \o sorted
    ELSE <<Head(sorted)>> \o InsertDescending(Tail(sorted), x)

\* sorted(records, key=itemgetter("start_time", "end_time"), reverse=True):
\* descending, records with equal keys in their original order.
RECURSIVE SortedDescending(_)
SortedDescending(recs) ==
    IF recs = <<>> THEN <<>>
    ELSE InsertDescending(SortedDescending(SubSeq(recs, 1, Len(recs) - 1)),
                          recs[Len(recs)])

\* The any(...) over the to, copy and blind-copy lists.
HasRecipients(a) ==
    a.to_addresses # <<>> \/ a.copy_addresses # <<>> \/ a.blind_copy_addresses # <<>>

\* send_notification is called: it reads notification_addresses and returns
\* at once when there is no recipient.
NotifyCheck ==
    /\ npc \in {"idle", "returned", "raised"}
    /\ batch # <<>>
    /\ sends' = <<>>
    /\ records' = <<>>
    /\ subject' = ""
    /\ nerror' = ReadAddresses(batch[1]).raises
    /\ addresses' = ReadAddresses(batch[1]).value
    /\ npc' = IF ReadAddresses(batch[1]).raises # "none" THEN "raised"
              ELSE IF HasRecipients(ReadAddresses(batch[1]).value[1]) THEN "records"
              ELSE "returned"
    /\ UNCHANGED <<Batch, batch, made, extractVars, jobVars, pipeVars>>
    /\ UNCHANGED utilVars

\* records = sorted(self.job_last_run_records, ...).
NotifyRecords ==
    /\ npc = "records"
    /\ IF SortRaises(job_last_run_records(Job_Run, batch[2]))
          THEN /\ nerror' = "TypeError"
               /\ npc' = "raised"
               /\ records' = records
          ELSE /\ nerror' = nerror
               /\ npc' = "addresses"
               /\ records' = SortedDescending(job_last_run_records(Job_Run, batch[2]))
    /\ UNCHANGED <<Batch, batch, made, addresses, subject, sends, extractVars, jobVars,
                   pipeVars>>
    /\ UNCHANGED utilVars

\* **self.notification_addresses: the second read, for the call's arguments.
NotifyAddresses ==
    /\ npc = "addresses"
    /\ nerror' = ReadAddresses(batch[1]).raises
    /\ addresses' = ReadAddresses(batch[1]).value
    /\ npc' = IF ReadAddresses(batch[1]).raises # "none" THEN "raised" ELSE "subject"
    /\ UNCHANGED <<Batch, batch, made, records, subject, sends, extractVars, jobVars,
                   pipeVars>>
    /\ UNCHANGED utilVars

\* subject=f"Processing Batch: {self.name} ({self.status_description})".
NotifySubject ==
    /\ npc = "subject"
    /\ subject' = RUN_STATUS_DESCRIPTION[BatchStatus(Job_Run, batch[2])]
    /\ npc' = "send"
    /\ UNCHANGED <<Batch, batch, made, nerror, addresses, records, sends, extractVars,
                   jobVars, pipeVars>>
    /\ UNCHANGED utilVars

\* send_email_smtp(...) is called with the addresses, the subject and the
\* rendered records.
NotifySend ==
    /\ npc = "send"
    /\ sends' = Append(sends, [addresses |-> addresses[1], name |-> batch[1],
                               subject |-> subject, body |-> records])
    /\ npc' = "returned"
    /\ UNCHANGED <<Batch, batch, made, nerror, addresses, records, subject,
                   extractVars, jobVars, pipeVars>>
    /\ UNCHANGED utilVars

\* Job objects of pipelines that run while notifications are sent.
RunningJobs == {1, 3}

\* A pipeline writes the RUNNING or the COMPLETE status of one of its Jobs.
PipelineWrites == \E i \in RunningJobs, value \in {-1, 1} : SetRunStatus(i, value)

\* Batch tables drawn for the notifications: each address column of batch 1
\* is NULL or holds one address.
NotifyTables ==
    {{BatchRow(1, <<to, copy, blind, reply>>),
      BatchRow(2, <<NoneValue, NoneValue, NoneValue, NoneValue>>)} :
         to \in {NoneValue, Str(Address)}, copy \in {NoneValue, Str(Address)},
         blind \in {NoneValue, Str(Address)}, reply \in {NoneValue, Str(Address)}}

\* The process holds Batch("nightly"); the address columns of its row vary.
NotifyInit ==
    /\ InitJob
    /\ InitIdlePipeline
    /\ InitIdleExtract
    /\ InitIdleNotify
    /\ Batch \in NotifyTables
    /\ batch = <<BatchName(1), 1>>
    /\ made = <<"Batch", BatchName(1), 1>>
    /\ nerror = "none"
    /\ addresses = <<>>
    /\ InitIdleUtil

NotifyNext ==
    \/ PipelineWrites
    \/ NotifyCheck
    \/ NotifyRecords
    \/ NotifyAddresses
    \/ NotifySubject
    \/ NotifySend

NotifySpec == NotifyInit /\ [][NotifyNext]_vars

(***************************************************************************)
(* Claims about Job.run_status and Batch.status.                            *)
(***************************************************************************)
\* Rows of job j in the store.
RunsOf(j) == {r \in 1..Len(Job_Run) : Job_Run[r].job_id = j}

\* C2: for every Job object, the first status write inserts exactly one
\* Job_Run row and sets run_id to the id of that row; a later write leaves
\* run_id as it is and inserts no row.
C2_FirstWriteFixesRunId ==
    [][\A i \in Insts :
          /\ (run_id[i] = None /\ run_id'[i] # None)
                 => /\ Len(Job_Run') = Len(Job_Run) + 1
                    /\ run_id'[i] = Len(Job_Run')
          /\ run_id[i] # None => run_id'[i] = run_id[i]
          /\ Len(Job_Run') # Len(Job_Run)
                 => \E k \in Insts : run_id[k] = None /\ run_id'[k] # None]_vars

\* C3: every status stored in Job_Run is -1, 0 or 1, whatever values callers
\* have tried to write.
C3_StoredStatusValid ==
    \A r \in 1..Len(Job_Run) : Job_Run[r].status \in {-1, 0, 1}

\* Rows have been written and the last attempt, with an invalid value, raised.
C3_Witness ==
    /\ error = "ValueError"
    /\ \E i \in Insts : run_id[i] # None /\ Job_Run[run_id[i]].status = 1

\* C4: a write that raises ValueError leaves the Job_Run table and every
\* run_id as they were; a write that changes either does not raise.
C4_InvalidWriteChangesNothing ==
    [][/\ error' = "ValueError" => (Job_Run' = Job_Run /\ run_id' = run_id)
       /\ (Job_Run' # Job_Run \/ run_id' # run_id) => error' = "none"]_vars

\* An invalid write was rejected on a store where one Job has a run and
\* another has never been started.
C4_Witness ==
    /\ error = "ValueError"
    /\ \E i, k \in Insts : run_id[i] # None /\ run_id[k] = None

\* The latest runs of the jobs of a batch: no run of the same job starts later.
LatestRunsOfBatch(b) ==
    {r \in 1..Len(Job_Run) :
        /\ BatchOf(Job_Run[r].job_id) = b
        /\ ~\E q \in RunsOf(Job_Run[r].job_id) :
               TextLess(Job_Run[r].start_time, Job_Run[q].start_time)}

\* C5: Batch.status is 1 exactly when the latest run of every job of the batch
\* has status 1, and -1 otherwise (never 0); older runs do not count.
C5_BatchStatusAggregates ==
    \A b \in BatchIds :
        /\ BatchStatus(Job_Run, b) \in {1, -1}
        /\ BatchStatus(Job_Run, b) = 1
               <=> \A r \in LatestRunsOfBatch(b) : Job_Run[r].status = 1

\* Batch 1 is complete although an older run of one of its jobs failed, and
\* both of its jobs have runs.
C5_Witness ==
    /\ BatchStatus(Job_Run, 1) = 1
    /\ RunsOf(2) # {}
    /\ \E r, q \in RunsOf(1) :
           /\ TextLess(Job_Run[r].start_time, Job_Run[q].start_time)
           /\ Job_Run[r].status = 0

\* C7: every Job_Run row with status 1 or 0 has an end_time and every row
\* with status -1 has none.
C7_EndTimeFollowsStatus ==
    \A r \in 1..Len(Job_Run) :
        /\ Job_Run[r].status \in {0, 1} => Job_Run[r].end_time # Null
        /\ Job_Run[r].status = -1 => Job_Run[r].end_time = Null

(***************************************************************************)
(* Claims about Pipeline.execute and Pipeline.init_logger.                  *)
(***************************************************************************)
Range(q) == {q[k] : k \in 1..Len(q)}

\* A procedure of member mi has raised and the exception has left execute.
ProcedureFailed == pc = "raised" /\ thrown # "none"

SharesRunOfFailing(k) ==
    /\ IsJob(members[k])
    /\ IsJob(members[mi])
    /\ run_id[members[k][2]] = run_id[members[mi][2]]

C6_FailedJobStaysIncomplete ==
    /\ (ProcedureFailed /\ IsJob(members[mi]))
           => /\ RunStatus(members[mi][2]) = <<-1>>
              /\ Job_Run[run_id[members[mi][2]]].end_time = Null
    /\ \A r \in (Len(EarlierRuns) + 1)..Len(Job_Run) : Job_Run[r].status # 0

\* C8: every time execute starts to run a Job member, exactly one row is
\* added to Job_Run, for the job of that member; no row is ever deleted.
C8_OneRowPerJobExecution ==
    [][/\ Len(Job_Run') >= Len(Job_Run)
       /\ jobStarts' # jobStarts
              => /\ Len(Job_Run') = Len(Job_Run) + 1
                 /\ Job_Run'[Len(Job_Run')].job_id = JobOf(members[mi][2])]_vars

\* C9: when execute raises TypeError for a member that is neither a Job nor
\* a callable, no procedure has been invoked, the Job_Run table is as it was
\* when execute was called, and so are the handlers of the root logger.
C9_InvalidMemberFailsFirst ==
    (pc = "raised" /\ raised = "TypeError" /\ members[mi] = <<"other", 0>>)
        => /\ invoked = <<>>
           /\ Job_Run = atCall.Job_Run
           /\ handlers = atCall.handlers

\* C10: after init_logger the root logger holds exactly the console handler
\* and the file handler of that call.
C10_OnlyTheMembersHandlers ==
    inits > 0
        => handlers = <<[kind |-> "console", call |-> inits],
                        [kind |-> "file", call |-> inits]>>

\* A callable that is not a Job: a plain function, a lambda or a partial.
IsBareCallable(member) == member[1] \in {"function", "partial"}

\* Invocations of procedures of member k by the current execute.
InvocationsOf(k) == {n \in 1..Len(invoked) : invoked[n][1] = k}

\* C13: a member that is a bare callable and not a Job (function, lambda or
\* partial) is never rejected with TypeError; once execute has gone past it,
\* it has been invoked exactly once; a pipeline of bare callables only writes
\* no Job_Run row.
C13_BareCallablesAccepted ==
    /\ (pc = "raised" /\ raised = "TypeError") => ~IsBareCallable(members[mi])
    /\ \A k \in 1..Len(members) :
           (IsBareCallable(members[k]) /\ k < mi) => Cardinality(InvocationsOf(k)) = 1
    /\ (\A k \in 1..Len(members) : IsBareCallable(members[k]))
           => Job_Run = EarlierRuns

\* <<k, j>> comes before <<l, m>> in declaration order.
Before(x, y) == x[1] < y[1] \/ (x[1] = y[1] /\ x[2] < y[2])

\* Procedure x of the current execute has returned.
Returned(x) == x[1] < mi \/ (x[1] = mi /\ x[2] <= pi)

\* C14: the invocations of an execute call are in declaration order, each
\* procedure (procedure j of member k) at most once; when procedure j of
\* member k is invoked, every procedure of the members before k and the
\* procedures before j of member k have been invoked and have returned.
C14_InvokedInDeclarationOrder ==
    \A n \in 1..Len(invoked) :
        LET earlier == {invoked[m] : m \in 1..(n - 1)}
        IN  /\ \A x \in earlier : Before(x, invoked[n]) /\ Returned(x)
            /\ Cardinality(earlier) = n - 1
            /\ \A k \in 1..invoked[n][1] :
                   \A j \in 1..ProcedureCount(members[k]) :
                       Before(<<k, j>>, invoked[n]) => <<k, j>> \in earlier

\* The second procedure of the second member has been invoked after a first
\* member with two procedures.
C14_Witness ==
    /\ Len(invoked) = 4
    /\ invoked[4] = <<2, 2>>
    /\ invoked[2] = <<1, 2>>
    /\ pc = "procedures"

\* The row a RUNNING write of Job object i leaves: the row run_id names or
\* the row just inserted, of the job of i, with status -1 and no end_time.
RunningRowOf(i) ==
    \E r \in {run_id[i], Len(Job_Run)} :
        /\ r # None
        /\ Job_Run[r].job_id = JobOf(i)
        /\ Job_Run[r].status = -1
        /\ Job_Run[r].end_time = Null

\* C15: when execute has started Job member k and not yet invoked any of its
\* procedures, status -1 has been written for the Job, every procedure of the
\* members before k has been invoked and none of member k or later; whenever
\* a procedure of a Job member has been invoked, the Job's run_id is set.
C15_RunningBeforeFirstProcedure ==
    \A k \in 1..Len(members) :
        IsJob(members[k]) =>
            /\ (pc = "init_logger" /\ mi = k)
                   => /\ RunningRowOf(members[k][2])
                      /\ \A x \in Range(invoked) : x[1] < k
                      /\ \A l \in 1..(k - 1) :
                             \A p \in 1..ProcedureCount(members[l]) :
                                 <<l, p>> \in Range(invoked)
            /\ InvocationsOf(k) # {} => run_id[members[k][2]] # None

\* The second member, a Job that has a run from the first execute, has been
\* started again and is about to run its first procedure.
C15_Witness ==
    /\ pc = "init_logger"
    /\ executes = 2
    /\ mi = 2
    /\ IsJob(members[1])
    /\ IsJob(members[2])
    /\ NumProcedures(members[2][2]) = 2
    /\ Len(invoked) = NumProcedures(members[1][2])

\* C16: a step writes status 1 to a Job_Run row only when every procedure of
\* the Job member being executed has returned and none has raised; when
\* execute returns normally, the run of every Job member (the row its run_id
\* names) has status 1 and an end_time, also when the Job has no procedure.
C16_CompleteAfterAllProcedures ==
    [][/\ (\E r \in 1..Len(Job_Run') :
               /\ Job_Run'[r].status = 1
               /\ r <= Len(Job_Run) => Job_Run[r].status # 1)
           => /\ pc = "procedures"
              /\ IsJob(members[mi])
              /\ thrown = "none"
              /\ \A p \in 1..NumProcedures(members[mi][2]) :
                     \E n \in 1..Len(invoked) : invoked[n] = <<mi, p>> /\ p <= pi
       /\ pc' = "returned"
           => \A k \in 1..Len(members) :
                  IsJob(members[k])
                      => /\ run_id'[members[k][2]] # None
                         /\ Job_Run'[run_id'[members[k][2]]].status = 1
                         /\ Job_Run'[run_id'[members[k][2]]].end_time # Null]_vars

\* execute has returned normally from a pipeline that holds a Job without
\* procedures and a Job with two procedures.
C16_Witness ==
    /\ pc = "returned"
    /\ <<"job", 3>> \in Range(members)
    /\ <<"job", 2>> \in Range(members)
    /\ RunStatus(3) = <<1>>
    /\ Job_Run[run_id[2]].end_time # Null

\* C17: a status write on a Job whose run_id is set (a write that inserts no
\* row) changes at most the row a run_id names, and in it only status and
\* end_time; the start_time and the job_id of a row never change.
C17_UpdateFrame ==
    [][/\ \A r \in 1..Len(Job_Run) :
              /\ r <= Len(Job_Run')
              /\ Job_Run'[r].start_time = Job_Run[r].start_time
              /\ Job_Run'[r].job_id = Job_Run[r].job_id
       /\ Len(Job_Run') = Len(Job_Run)
              => \A r \in 1..Len(Job_Run) :
                     Job_Run'[r] # Job_Run[r]
                         => /\ \E i \in Insts : run_id[i] = r
                            /\ \A q \in 1..Len(Job_Run) :
                                   q # r => Job_Run'[q] = Job_Run[q]]_vars

\* A run has been completed at a later clock reading than its start, beside
\* a run of another Job that is still incomplete.
C17_Witness ==
    \E i, k \in Insts :
        /\ run_id[i] # None
        /\ run_id[k] # None
        /\ run_id[i] # run_id[k]
        /\ Job_Run[run_id[i]].status = 1
        /\ Job_Run[run_id[i]].end_time # Null
        /\ Job_Run[run_id[i]].end_time # Job_Run[run_id[i]].start_time
        /\ Job_Run[run_id[k]].status = -1

RECURSIVE AddressesIn(_)
AddressesIn(src) ==
    IF src[1] \in {"str", "bytes"} THEN Range(findall(src[2]))
    ELSE IF src[1] = "list"
        THEN UNION {AddressesIn(src[2][k]) : k \in 1..Len(src[2])}
    ELSE IF src[1] = "dict"
        THEN UNION {AddressesIn(src[2][k][2]) : k \in 1..Len(src[2])}
    ELSE {}

\* The mapping {"k": ["c@z.com"]}.
KeyToList == <<"dict", <<<<Str(<<"c">>), <<"list", <<Str(Address)>>>>>>>>>>

\* C11: from a mapping, extract_email_addresses yields every address in the
\* mapping's values, at any depth; from {"k": ["c@z.com"]} exactly "c@z.com".
C11_MappingValuesAreScanned ==
    (epc = "done" /\ source[1] = "dict")
        => /\ AddressesIn(source) \subseteq Range(yielded)
           /\ source = KeyToList => yielded = <<Address>>

(***************************************************************************)
(* Claims about the constructors and Batch.notification_addresses.          *)
(***************************************************************************)
\* C18: Job(name) or Batch(name) with a name no row has fails with a
\* not-found error of its own, and no constructor call writes to the store.
C18_AbsentNameIsNotFound ==
    [][/\ (made' # <<>> /\ made'[1] \in {"Job", "Batch"} /\ made'[3] = None)
              => nerror' = "NotFound"
       /\ (made' # made /\ made'[1] \in {"Job", "Batch"})
              => Job_Run' = Job_Run /\ Batch' = Batch]_vars

EmptyAddresses ==
    [to_addresses |-> <<>>, copy_addresses |-> <<>>, blind_copy_addresses |-> <<>>,
     reply_to_addresses |-> <<>>]

\* The row has no address in any of its four columns.
NoAddressIn(row) ==
    \A col \in {row.notification_to_addresses, row.notification_copy_addresses,
                row.notification_blind_copy_addresses,
                row.notification_reply_to_addresses} : AddressesIn(col) = {}

\* C19: a read of notification_addresses raises ValueError exactly when no
\* Batch row has the batch's name at that time; when the row is there and
\* none of its four columns has an address, the read raises nothing and
\* returns the four keys, each with an empty list.
C19_ValueErrorIffNoRow ==
    [][(made' # <<>> /\ made'[1] = "notification_addresses" /\ Batch' = Batch)
          => /\ nerror' = "ValueError" <=> ~\E row \in Batch : row.name = batch[1]
             /\ nerror' \in {"none", "ValueError"}
             /\ \A row \in Batch :
                    (row.name = batch[1] /\ NoAddressIn(row))
                        => nerror' = "none" /\ addresses' = <<EmptyAddresses>>]_vars

\* A read has raised ValueError for a batch whose row was deleted after an
\* earlier read of it had returned four empty lists.
C19_Witness ==
    /\ made = <<"notification_addresses", "nightly", 1>>
    /\ nerror = "ValueError"
    /\ addresses = <<EmptyAddresses>>
    /\ \E row \in Batch : row.name = "weekly"

(***************************************************************************)
(* Claims about Batch.send_notification.                                    *)
(***************************************************************************)
\* The notification lists of the batch of the process, from its row.
ListsOfBatch == AddressesOf(CHOOSE row \in Batch : row.name = batch[1])

\* C12: when a send_notification call has ended, it has made no call of
\* send_email_smtp if the to, copy and blind-copy lists of the batch are all
\* empty (whatever the reply-to list holds), and exactly one call if one of
\* the three lists is not empty.
C12_SendsOnceIffRecipients ==
    npc \in {"returned", "raised"}
        => Len(sends) = IF HasRecipients(ListsOfBatch) THEN 1 ELSE 0

(***************************************************************************)
(* value.py: min_value and max_value.  An argument is None or a number.     *)
(***************************************************************************)
\* Most arguments of one call.
MaxValues == 3

NoneArg == <<"None", 0>>

Numbers == {<<"int", 1>>, <<"int", 2>>}

ArgumentLists == SeqsUpTo({NoneArg} \cup Numbers, MaxValues)

\* [value for value in values if value is not None].
NotNone(values) == SelectSeq(values, LAMBDA value : value[1] # "None")

\* max(values) of a non-empty list of numbers.
Largest(values) ==
    CHOOSE x \in Range(values) : \A y \in Range(values) : y[2] <= x[2]

\* min over the numbers of a non-empty list.
Smallest(values) ==
    CHOOSE x \in Range(values) : \A y \in Range(values) : x[2] <= y[2]

\* max_value(*values): max(values) if values else None.
max_value(values) ==
    IF NotNone(values) = <<>> THEN [raises |-> "none", result |-> NoneArg]
    ELSE [raises |-> "none", result |-> Largest(NotNone(values))]

\* min_value(*values): min(*values) if values else None.  With one value
\* left the call is min(value), which takes the value for an iterable: a
\* number is none, and min raises TypeError.
min_value(values) ==
    IF NotNone(values) = <<>> THEN [raises |-> "none", result |-> NoneArg]
    ELSE IF Len(NotNone(values)) = 1
        THEN [raises |-> "TypeError", result |-> NoneArg]
    ELSE [raises |-> "none", result |-> Smallest(NotNone(values))]

MinValue ==
    /\ minmax.called = "none"
    /\ minmax' = [values |-> minmax.values, called |-> "min_value",
                  raises |-> min_value(minmax.values).raises,
                  result |-> min_value(minmax.values).result]
    /\ UNCHANGED <<merge, main, poll, upload>>
    /\ UNCHANGED <<jobVars, pipeVars, extractVars, batchVars, notifyVars>>

MaxValue ==
    /\ minmax.called = "none"
    /\ minmax' = [values |-> minmax.values, called |-> "max_value",
                  raises |-> max_value(minmax.values).raises,
                  result |-> max_value(minmax.values).result]
    /\ UNCHANGED <<merge, main, poll, upload>>
    /\ UNCHANGED <<jobVars, pipeVars, extractVars, batchVars, notifyVars>>

\* The argument list is any list of up to MaxValues Nones and numbers.
ValueInit ==
    /\ InitJob
    /\ InitIdlePipeline
    /\ InitIdleExtract
    /\ InitIdleBatch
    /\ InitIdleNotify
    /\ minmax \in [values : ArgumentLists, called : {"none"}, raises : {"none"},
                   result : {NoneArg}]
    /\ InitIdleMerge
    /\ InitIdleMain
    /\ InitIdlePoll
    /\ InitIdleUpload

ValueNext ==
    \/ MinValue
    \/ MaxValue

ValueSpec == ValueInit /\ [][ValueNext]_vars

\* C23: min_value returns the smallest number among its arguments when
\* there is one, and None when there is none, and never raises; max_value
\* does the same with the largest.
C23_SmallestAndLargest ==
    LET numbers == {v \in Range(minmax.values) : v[1] = "int"}
    IN  minmax.called # "none"
            => /\ minmax.raises = "none"
               /\ numbers = {} => minmax.result = NoneArg
               /\ numbers # {}
                      => /\ minmax.result \in numbers
                         /\ \A v \in numbers :
                                IF minmax.called = "min_value"
                                    THEN minmax.result[2] <= v[2]
                                    ELSE minmax.result[2] >= v[2]

(***************************************************************************)
(* misc.py: merge_common_collections.                                       *)
(***************************************************************************)
\* Most collections of one call.
MaxCollections == 3

Items == {1, 2, 3}

CollectionLists == SeqsUpTo(SUBSET Items, MaxCollections)

\* The body of the outer loop for one collection: the first merged set that
\* shares an item takes the collection in, and the loop over the merged sets
\* breaks; with no such set the collection is appended.
RECURSIVE MergeInto(_, _)
MergeInto(merged, collection) ==
    IF merged = <<>> THEN <<collection>>
    ELSE IF Head(merged) \cap collection # {}
        THEN <<Head(merged) \cup collection>> \o Tail(merged)
    ELSE <<Head(merged)>> \o MergeInto(Tail(merged), collection)

\* merged_collections after the loop over the collections.
RECURSIVE merged_collections(_)
merged_collections(collections) ==
    IF collections = <<>> THEN <<>>
    ELSE MergeInto(merged_collections(SubSeq(collections, 1, Len(collections) - 1)),
                   collections[Len(collections)])

\* A loop that never notes a merge.
merge_never_happened(collections) == FALSE

\* merge_has_happened after the loop: some collection was taken in by a
\* merged set instead of being appended.
merge_has_happened(collections) ==
    Len(merged_collections(collections)) < Len(collections)

\* One call of merge_common_collections, the first or a recursive one: when
\* a merge has happened the merged sets are the arguments of the next call,
\* otherwise they are yielded.
MergeCall ==
    /\ ~merge.done
    /\ IF merge_has_happened(merge.collections)
          THEN merge' = [merge EXCEPT !.collections = merged_collections(merge.collections)]
          ELSE merge' = [merge EXCEPT !.done = TRUE,
                                      !.yielded = merged_collections(merge.collections)]
    /\ UNCHANGED <<minmax, main, poll, upload>>
    /\ UNCHANGED <<jobVars, pipeVars, extractVars, batchVars, notifyVars>>

\* The arguments are any list of up to MaxCollections sets of items.
MergeInit ==
    /\ InitJob
    /\ InitIdlePipeline
    /\ InitIdleExtract
    /\ InitIdleBatch
    /\ InitIdleNotify
    /\ InitIdleMinMax
    /\ \E collections \in CollectionLists :
           merge = [input |-> collections, collections |-> collections,
                    done |-> FALSE, yielded |-> <<>>]
    /\ InitIdleMain
    /\ InitIdlePoll
    /\ InitIdleUpload

MergeNext == MergeCall

MergeSpec == MergeInit /\ [][MergeNext]_vars

\* The items linked to an item of S by a chain of collections that share
\* items.
RECURSIVE Linked(_, _)
Linked(S, collections) ==
    LET next == S \cup UNION {c \in Range(collections) : c \cap S # {}}
    IN  IF next = S THEN S ELSE Linked(next, collections)

\* C24: every recursive call of merge_common_collections has fewer
\* collections than the call before, so the calls end; the sets yielded are
\* pairwise disjoint, their union is the union of the arguments, and two
\* items are in one yielded set exactly when a chain of arguments that share
\* items links them.
C24_MergedAreComponents ==
    [][/\ ~merge'.done => Len(merge'.collections) < Len(merge.collections)
       /\ merge'.done
              => /\ \A m, n \in 1..Len(merge'.yielded) :
                        m # n => merge'.yielded[m] \cap merge'.yielded[n] = {}
                 /\ UNION Range(merge'.yielded) = UNION Range(merge'.input)
                 /\ \A x, y \in UNION Range(merge'.input) :
                        (\E m \in 1..Len(merge'.yielded) :
                             x \in merge'.yielded[m] /\ y \in merge'.yielded[m])
                            <=> y \in Linked({x}, merge'.input)]_vars

\* Two sets that share nothing before a set that shares an item with each
\* have been merged into one set, which takes three calls.
C24_Witness ==
    /\ merge.done
    /\ merge.input = <<{1}, {2}, {1, 2}>>
    /\ merge.yielded = <<{1, 2}>>

(***************************************************************************)
(* manager.py: run_as_main.                                                 *)
(***************************************************************************)
\* The mapping a script passes to run_as_main: two Jobs, a function and an
\* object that is no pipeline member.
available_members ==
    ("first" :> <<"job", 1>>) @@ ("second" :> <<"job", 2>>)
        @@ ("helper" :> <<"function", 0>>) @@ ("other" :> <<"other", 0>>)

available_names == DOMAIN available_members

\* The member arguments of the command line: available names and one that
\* is not available, in any order, repeats included.
CommandLines == SeqsUpTo(available_names \cup {"missing"}, MaxMembers)

\* A test that lets an empty command line through.
MainAcceptsNoNames(member_names) ==
    \A k \in 1..Len(member_names) : member_names[k] \in available_names

\* member_names and available_names.issuperset(member_names).
MainAccepts(member_names) ==
    /\ member_names # <<>>
    /\ \A k \in 1..Len(member_names) : member_names[k] \in available_names

\* The errors the else branch logs, in order.
RECURSIVE NotAvailable(_)
NotAvailable(member_names) ==
    IF member_names = <<>> THEN <<>>
    ELSE (IF Head(member_names) \in available_names THEN <<>>
          ELSE <<<<"not available in exec", Head(member_names)>>>>)
             \o NotAvailable(Tail(member_names))

MainErrors(member_names) ==
    (IF member_names = <<>> THEN <<<<"No pipeline member arguments", "">>>> ELSE <<>>)
        \o NotAvailable(member_names)
        \o <<<<"Available objects in exec", "">>>>

\* run_as_main(available_members): with accepted names the pipeline of the
\* named members is built and its execute is called; otherwise a console
\* handler is added to LOG and the errors are logged.
RunAsMain ==
    /\ ~main.called
    /\ pc = "idle"
    /\ IF MainAccepts(main.argv)
          THEN /\ main' = [main EXCEPT !.called = TRUE]
               /\ members' = [k \in 1..Len(main.argv) |-> available_members[main.argv[k]]]
               /\ executes' = executes + 1
               /\ pc' = "member"
               /\ mi' = 1
               /\ pi' = 0
               /\ raised' = "none"
               /\ thrown' = "none"
               /\ invoked' = <<>>
               /\ atCall' = [Job_Run |-> Job_Run, handlers |-> handlers]
          ELSE /\ main' = [main EXCEPT !.called = TRUE,
                                       !.errors = MainErrors(main.argv),
                                       !.handlers = <<"console">>]
               /\ UNCHANGED <<members, executes, pc, mi, pi, raised, thrown, invoked,
                              atCall>>
    /\ UNCHANGED <<jobVars, handlers, inits, jobStarts>>
    /\ UNCHANGED <<minmax, merge, poll, upload>>
    /\ UNCHANGED <<extractVars, batchVars, notifyVars>>

\* The script is started with any command line of up to MaxMembers names.
MainInit ==
    /\ InitJob
    /\ InitIdlePipeline
    /\ InitIdleExtract
    /\ InitIdleBatch
    /\ InitIdleNotify
    /\ InitIdleMinMax
    /\ InitIdleMerge
    /\ \E argv \in CommandLines :
           main = [argv |-> argv, called |-> FALSE, errors |-> <<>>, handlers |-> <<>>]
    /\ InitIdlePoll
    /\ InitIdleUpload

MainNext ==
    \/ RunAsMain
    \/ StartJob
    \/ StartFunction
    \/ RejectMember
    \/ InitLogger
    \/ ProcedureReturns
    \/ \E e \in Exceptions : ProcedureRaises(e)
    \/ FinishJob
    \/ FinishFunction
    \/ Return

MainSpec == MainInit /\ [][MainNext]_vars

\* Something of a pipeline has been executed.
MainExecuted ==
    \/ executes > 0
    \/ pc # "idle"
    \/ invoked # <<>>
    \/ jobStarts > 0
    \/ inits > 0
    \/ Job_Run # EarlierRuns

\* C28: run_as_main executes a pipeline only for a command line with at
\* least one name and only available names, and then the members are the
\* named objects in the order of the names and are invoked in that order;
\* for any other command line nothing is executed, not even for the names
\* that are available, and errors are logged.
C28_ExecutesOnlyAvailableNames ==
    /\ ~main.called => ~MainExecuted
    /\ main.called
           => IF /\ main.argv # <<>>
                 /\ \A k \in 1..Len(main.argv) : main.argv[k] \in DOMAIN available_members
                 THEN /\ executes = 1
                      /\ main.errors = <<>>
                      /\ Len(members) = Len(main.argv)
                      /\ \A k \in 1..Len(members) :
                             members[k] = available_members[main.argv[k]]
                      /\ \A n \in 1..Len(invoked) : \A m \in 1..Len(invoked) :
                             n < m => invoked[n][1] <= invoked[m][1]
                 ELSE /\ ~MainExecuted
                      /\ members = <<>>
                      /\ main.errors # <<>>

\* The script was started with the names of the function and of a Job, in
\* that order: the function has run before the Job's procedure, and the
\* pipeline has returned.
C28_Witness ==
    /\ main.called
    /\ main.argv = <<"helper", "first">>
    /\ pc = "returned"
    /\ invoked = <<<<1, 1>>, <<2, 1>>>>

(***************************************************************************)
(* media.py: the wait for the PDF in convert_image_to_pdf and in            *)
(* convert_image_to_pdf_cmd, from the return of the external tool on.  The  *)
(* two functions have the same loop.  wait_time counts wait intervals.      *)
(***************************************************************************)
\* max_wait in wait intervals: 30.0 / 0.1 = 300 in the code (300 additions
\* of 0.1 give the first float that is not below 30.0), fewer here.
MaxWaitIntervals == 10

ConvertFunctions == {"convert_image_to_pdf", "convert_image_to_pdf_cmd"}

\* `while not output_path.is_file()`: with the file the else clause of the
\* loop sets the result and the function returns.
PollTest ==
    /\ poll.pc = "while"
    /\ IF poll.is_file
          THEN poll' = [poll EXCEPT !.pc = "returned", !.result = "converted"]
          ELSE poll' = [poll EXCEPT !.pc = "body"]
    /\ UNCHANGED <<minmax, merge, main, upload>>
    /\ UNCHANGED <<jobVars, pipeVars, extractVars, batchVars, notifyVars>>

\* A body that sleeps without counting the wait.
PollBodyUncounted ==
    /\ poll.pc = "body"
    /\ IF poll.wait_time < MaxWaitIntervals
          THEN poll' = [poll EXCEPT !.pc = "while"]
       ELSE IF poll.error_on_failure
          THEN poll' = [poll EXCEPT !.pc = "raised", !.result = "IOError"]
       ELSE poll' = [poll EXCEPT !.pc = "returned", !.result = "failed to convert"]
    /\ UNCHANGED <<minmax, merge, main, upload>>
    /\ UNCHANGED <<jobVars, pipeVars, extractVars, batchVars, notifyVars>>

\* The loop body: count and sleep one interval while wait_time < max_wait;
\* after that raise IOError or break with "failed to convert".
PollBody ==
    /\ poll.pc = "body"
    /\ IF poll.wait_time < MaxWaitIntervals
          THEN poll' = [poll EXCEPT !.pc = "while", !.wait_time = poll.wait_time + 1]
       ELSE IF poll.error_on_failure
          THEN poll' = [poll EXCEPT !.pc = "raised", !.result = "IOError"]
       ELSE poll' = [poll EXCEPT !.pc = "returned", !.result = "failed to convert"]
    /\ UNCHANGED <<minmax, merge, main, upload>>
    /\ UNCHANGED <<jobVars, pipeVars, extractVars, batchVars, notifyVars>>

\* The library behind the tool writes the PDF, at any time during the wait.
FileAppears ==
    /\ poll.pc \in {"while", "body"}
    /\ ~poll.is_file
    /\ poll' = [poll EXCEPT !.is_file = TRUE]
    /\ UNCHANGED <<minmax, merge, main, upload>>
    /\ UNCHANGED <<jobVars, pipeVars, extractVars, batchVars, notifyVars>>

\* The external tool has returned; the PDF may be there already.
PollInit ==
    /\ InitJob
    /\ InitIdlePipeline
    /\ InitIdleExtract
    /\ InitIdleBatch
    /\ InitIdleNotify
    /\ InitIdleMinMax
    /\ InitIdleMerge
    /\ InitIdleMain
    /\ poll \in [function : ConvertFunctions, pc : {"while"}, wait_time : {0},
                 is_file : BOOLEAN, error_on_failure : BOOLEAN, result : {""}]
    /\ InitIdleUpload

PollNext ==
    \/ PollTest
    \/ PollBody
    \/ FileAppears

\* The function's thread goes on running: is_file and time.sleep return.
\* Nothing makes the file appear.
PollSpec == PollInit /\ [][PollNext]_vars /\ WF_vars(PollTest) /\ WF_vars(PollBody)

\* C29: after the tool has returned the function ends, whether the file
\* appears or not; it returns "converted" at the first test that finds the
\* file; it gives up only when the counted wait has reached max_wait, with
\* IOError when error_on_failure is set and with "failed to convert"
\* otherwise; the counted wait never goes past max_wait.
C29_WaitIsBounded ==
    /\ <>(poll.pc \in {"returned", "raised"})
    /\ [](poll.wait_time <= MaxWaitIntervals)
    /\ []((poll.pc = "returned" /\ poll.result = "converted") => poll.is_file)
    /\ []((poll.pc = "returned" /\ poll.result # "converted")
              => /\ poll.result = "failed to convert"
                 /\ ~poll.error_on_failure
                 /\ poll.wait_time = MaxWaitIntervals)
    /\ [](poll.pc = "raised"
              => /\ poll.result = "IOError"
                 /\ poll.error_on_failure
                 /\ poll.wait_time = MaxWaitIntervals)
    /\ [][(poll.pc = "while" /\ poll.is_file)
              => (poll'.pc = "returned" /\ poll'.result = "converted")]_vars

\* The file never appeared: the function has returned "failed to convert"
\* after max_wait.
C29_Witness ==
    /\ poll.pc = "returned"
    /\ poll.result = "failed to convert"
    /\ ~poll.is_file
    /\ poll.wait_time = MaxWaitIntervals

(***************************************************************************)
(* transfer.py: dropbox_upload_file.  The bytes of the file are numbered    *)
(* from 1; a request carries the bytes first..last (none when last < first) *)
(* and, for an append or a finish, the offset of the cursor passed to it.   *)
(***************************************************************************)
\* Largest file, in bytes.
MaxFileSize == 9

\* Largest chunk_size a caller passes.
MaxChunkSize == 3

\* The limit of the default chunk_size: 134_217_728 in the code, less here.
MaxDefaultChunk == 4

\* kwargs.setdefault("chunk_size", min(file_size + 1, 134_217_728)).
DefaultChunkSize(file_size) ==
    IF file_size + 1 < MaxDefaultChunk THEN file_size + 1 ELSE MaxDefaultChunk

\* len(stream.read(size)): what is left of the file, size bytes at most.
ReadLen(size) ==
    IF upload.file_size - upload.tell < size THEN upload.file_size - upload.tell
    ELSE size

Request(kind, length, cursor_offset) ==
    [kind |-> kind, first |-> upload.tell + 1, last |-> upload.tell + length,
     offset |-> cursor_offset]

\* The if: files_upload with stream.read() for a file of one chunk,
\* otherwise files_upload_session_start with the first chunk and a cursor
\* at stream.tell().
UploadStart ==
    /\ upload.pc = "call"
    /\ IF upload.file_size <= upload.chunk_size
          THEN upload' = [upload EXCEPT
                   !.requests = Append(@, Request("upload", upload.file_size, 0)),
                   !.tell = upload.file_size,
                   !.pc = "returned"]
          ELSE upload' = [upload EXCEPT
                   !.requests = Append(@, Request("session_start", ReadLen(upload.chunk_size), 0)),
                   !.tell = upload.tell + ReadLen(upload.chunk_size),
                   !.offset = upload.tell + ReadLen(upload.chunk_size),
                   !.pc = "while"]
    /\ UNCHANGED <<minmax, merge, main, poll>>
    /\ UNCHANGED <<jobVars, pipeVars, extractVars, batchVars, notifyVars>>

\* An append that leaves the cursor where it was.
UploadAppendStaleCursor ==
    /\ upload.pc = "while"
    /\ upload.file_size - upload.tell > upload.chunk_size
    /\ upload' = [upload EXCEPT
           !.requests = Append(@, Request("session_append", ReadLen(upload.chunk_size),
                                          upload.offset)),
           !.tell = upload.tell + ReadLen(upload.chunk_size)]
    /\ UNCHANGED <<minmax, merge, main, poll>>
    /\ UNCHANGED <<jobVars, pipeVars, extractVars, batchVars, notifyVars>>

\* The loop body: files_upload_session_append_v2 with the next chunk and
\* the cursor, then cursor.offset = stream.tell().
UploadAppend ==
    /\ upload.pc = "while"
    /\ upload.file_size - upload.tell > upload.chunk_size
    /\ upload' = [upload EXCEPT
           !.requests = Append(@, Request("session_append", ReadLen(upload.chunk_size),
                                          upload.offset)),
           !.tell = upload.tell + ReadLen(upload.chunk_size),
           !.offset = upload.tell + ReadLen(upload.chunk_size)]
    /\ UNCHANGED <<minmax, merge, main, poll>>
    /\ UNCHANGED <<jobVars, pipeVars, extractVars, batchVars, notifyVars>>

\* After the loop: files_upload_session_finish with a last read of
\* chunk_size, the cursor and the commit.
UploadFinish ==
    /\ upload.pc = "while"
    /\ ~(upload.file_size - upload.tell > upload.chunk_size)
    /\ upload' = [upload EXCEPT
           !.requests = Append(@, Request("session_finish", ReadLen(upload.chunk_size),
                                          upload.offset)),
           !.tell = upload.tell + ReadLen(upload.chunk_size),
           !.pc = "returned"]
    /\ UNCHANGED <<minmax, merge, main, poll>>
    /\ UNCHANGED <<jobVars, pipeVars, extractVars, batchVars, notifyVars>>

\* The file has any size up to MaxFileSize; chunk_size is passed, from 1 to
\* MaxChunkSize, or left to its default.
UploadInit ==
    /\ InitJob
    /\ InitIdlePipeline
    /\ InitIdleExtract
    /\ InitIdleBatch
    /\ InitIdleNotify
    /\ InitIdleMinMax
    /\ InitIdleMerge
    /\ InitIdleMain
    /\ InitIdlePoll
    /\ \E file_size \in 0..MaxFileSize :
           \E chunk_size \in (1..MaxChunkSize) \cup {DefaultChunkSize(file_size)} :
               upload = [pc |-> "call", file_size |-> file_size,
                         chunk_size |-> chunk_size, tell |-> 0, offset |-> 0,
                         requests |-> <<>>]

UploadNext ==
    \/ UploadStart
    \/ UploadAppend
    \/ UploadFinish

UploadSpec == UploadInit /\ [][UploadNext]_vars

\* Bytes a request carries.
Carried(request) == request.last - request.first + 1

\* C30: the requests carry the bytes of the file in order, each byte once
\* and all of them when the function has returned; none carries more than
\* chunk_size bytes; a file of at most chunk_size bytes goes in one plain
\* upload, a larger one in a session start, appends and one finish at the
\* end; the cursor of an append or a finish is at the number of bytes sent
\* before it; every append carries at least one byte, so the loop ends.
C30_EveryByteOnceInOrder ==
    LET requests == upload.requests
        n == Len(requests)
    IN  /\ \A k \in 1..n :
               /\ Carried(requests[k]) <= upload.chunk_size
               /\ Carried(requests[k]) >= 0
               /\ requests[k].first = IF k = 1 THEN 1 ELSE requests[k - 1].last + 1
               /\ requests[k].kind \in {"session_append", "session_finish"}
                      => requests[k].offset = requests[k].first - 1
               /\ requests[k].kind = "session_append" => Carried(requests[k]) >= 1
               /\ requests[k].kind \in {"upload", "session_start"} <=> k = 1
               /\ requests[k].kind \in {"upload", "session_finish"}
                      => (k = n /\ upload.pc = "returned")
        /\ n > 0 => (requests[1].kind = "upload"
                        <=> upload.file_size <= upload.chunk_size)
        /\ upload.pc = "returned"
               => /\ n > 0
                  /\ requests[n].last = upload.file_size
                  /\ requests[n].kind \in {"upload", "session_finish"}

\* A file of seven bytes has been sent in chunks of three: a start, one
\* append and a finish with the last byte.
C30_Witness ==
    /\ upload.pc = "returned"
    /\ upload.file_size = 7
    /\ upload.chunk_size = 3
    /\ Len(upload.requests) = 3
    /\ upload.requests[2].kind = "session_append"
    /\ upload.requests[3] =
           [kind |-> "session_finish", first |-> 7, last |-> 7, offset |-> 6]

(***************************************************************************)
(* More claims about extract_email_addresses.                               *)
(***************************************************************************)
\* The addresses of the texts among the items q, in the order of the items;
\* an item that is no text gives none.
RECURSIVE FromTexts(_)
FromTexts(q) ==
    IF q = <<>> THEN <<>>
    ELSE (IF Head(q)[1] \in {"str", "bytes"} THEN findall(Head(q)[2]) ELSE <<>>)
             \o FromTexts(Tail(q))

\* C21: a source of an unsupported type (a number, None) yields nothing, at
\* the top level and inside a list or a list of lists, and the texts beside
\* it still yield their addresses, in the order of the sources.
C21_UnsupportedTypesAreSkipped ==
    epc = "done"
        => /\ source[1] \in {"int", "None"} => yielded = <<>>
           /\ source \in Lists => yielded = FromTexts(source[2])
           /\ source \in ListsOfLists
                  => yielded = FromTexts(source[2][1][2] \o source[2][2][2])

\* Addresses have been yielded from a list of two lists, the first with a
\* number before an address, the second with an address before a number.
C21_Witness ==
    /\ epc = "done"
    /\ source = <<"list", <<<<"list", <<<<"int", <<>>>>, Str(Address)>>>>,
                            <<"list", <<Str(Address), <<"int", <<>>>>>>>>>>>>
    /\ yielded = <<Address, Address>>

(***************************************************************************)
(* Two Job objects of one name.                                             *)
(***************************************************************************)
\* C25: two Job objects of the same name that have both written a status
\* hold different run_ids, each the id of the row its own first write
\* inserted, so that a write through one never changes the row of the other.
C25_SameNameRunsAreSeparate ==
    \A i \in Insts : \A k \in Insts :
        (i # k /\ JobOf(i) = JobOf(k) /\ run_id[i] # None /\ run_id[k] # None)
            => run_id[i] # run_id[k]

(***************************************************************************)
(* The content of a notification.                                           *)
(***************************************************************************)
\* listing holds the records recs, each exactly once.
IsListingOf(listing, recs) ==
    /\ Len(listing) = Len(recs)
    /\ \E f \in [1..Len(recs) -> 1..Len(recs)] :
           /\ \A m, n \in 1..Len(recs) : m # n => f[m] # f[n]
           /\ \A m \in 1..Len(recs) : listing[m] = recs[f[m]]

\* listing is ordered by start_time, newest first, and records of one
\* start_time that both have an end_time by end_time, newest first.
IsNewestFirst(listing) ==
    \A m, n \in 1..Len(listing) :
        m < n => /\ listing[m].start_time[1] >= listing[n].start_time[1]
                 /\ (/\ listing[m].start_time = listing[n].start_time
                     /\ listing[m].end_time # <<>>
                     /\ listing[n].end_time # <<>>)
                        => listing[m].end_time[1] >= listing[n].end_time[1]

\* C22: whatever last-run records the batch has, records with a null
\* end_time included, send_notification gets past its sort with a listing
\* that holds every record exactly once, newest first, and sends that
\* listing under the batch's name.
C22_ListingHoldsEveryRecord ==
    [][/\ (npc = "records" /\ npc' # "records")
              => /\ npc' = "addresses"
                 /\ IsListingOf(records', job_last_run_records(Job_Run, batch[2]))
                 /\ IsNewestFirst(records')
       /\ (npc = "send" /\ npc' # "send")
              => /\ sends'[Len(sends')].body = records
                 /\ sends'[Len(sends')].name = batch[1]]_vars

\* C26: in every notification sent, the subject says "complete" exactly
\* when every record listed in the body has status 1.
C26_SubjectAgreesWithBody ==
    \A k \in 1..Len(sends) :
        sends[k].subject = RUN_STATUS_DESCRIPTION[1]
            <=> \A m \in 1..Len(sends[k].body) : sends[k].body[m].status = 1

\* C27: a batch without last-run records has status 1, and a subject made
\* for it says "complete".
C27_NoRecordsIsComplete ==
    /\ \A b \in BatchIds :
           Last_Job_Run(Job_Run, b) = <<>>
               => /\ BatchStatus(Job_Run, b) = 1
                  /\ RUN_STATUS_DESCRIPTION[BatchStatus(Job_Run, b)] = "complete"
    /\ (npc = "send" /\ Last_Job_Run(Job_Run, batch[2]) = <<>>)
           => subject = "complete"

\* A notification has been sent for a batch none of whose jobs has run: its
\* body lists nothing and its subject says "complete".
C27_Witness ==
    /\ npc = "returned"
    /\ Last_Job_Run(Job_Run, batch[2]) = <<>>
    /\ Len(sends) = 1
    /\ sends[1].body = <<>>
    /\ sends[1].subject = "complete"

====
